---- MODULE Spec2Model ----
(***************************************************************************)
(* The Claude research graph of backend/src/agent/claude_graph.py as a     *)
(* state machine: the run state of agent/state.py with its reducers, one   *)
(* action per graph node (the node function, the merge of its partial      *)
(* update and the routing function on its outgoing edge), and the fan-out  *)
(* of web_research branches with its join.                                 *)
(***************************************************************************)
EXTENDS FiniteSets, Integers, Sequences, TLC

\* ---------------------------------------------------------------- bounds
MaxLoops == 4          \* largest loop budget a run is configured with
MaxQueries == 2        \* longest query list generate_query returns
MaxSources == 3        \* longest sources_gathered validate_sources is given

\* ------------------------------------------------------------- constants
DefaultMaxResearchLoops == 2   \* Configuration.max_research_loops default
ValidationLoopThreshold == 2   \* research_loop_count > 2 in evaluate_research
DefaultDeepResearchLoops == 15 \* Configuration.deep_research_loops default
CredibilityScore == 800        \* credibility_score = 0.8, in thousandths
DefaultReliability == 1000     \* reliability_score = 1.0, in thousandths

None == -1                     \* an integer field that is absent / None
NoKey == "none"                \* an API key that is absent / None
Blank == ""                    \* the one falsy query string
QueryPool == {Blank, "q1"}
\* the follow-up lists a reflection may return: none, only a blank entry, one
\* query, two queries around a blank entry
FollowUpLists ==
    {<<>>, <<Blank>>, <<"f1">>, <<"f1", Blank, "f2">>}
InputQueryPool == {"q0"}        \* queries the caller may put in the input
SourcePool == {"src1"}

Nodes == {"direct_llm_response", "generate_query", "web_research",
          "reflection", "validate_sources", "finalize_answer"}

SeqsUpTo(S, n) == UNION {[1..k -> S] : k \in 0..n}

Max(a, b) == IF a >= b THEN a ELSE b

VARIABLES
    pc,                          \* node the executor runs next; "END" / "FAILED"
    messages,                    \* OverallState.messages
    search_query,                \* OverallState.search_query (append)
    web_research_result,         \* OverallState.web_research_result (append)
    sources_gathered,            \* OverallState.sources_gathered (append)
    initial_search_query_count,  \* OverallState.initial_search_query_count
    max_research_loops,          \* OverallState.max_research_loops or None
    research_loop_count,         \* OverallState.research_loop_count
    deep_research_mode,          \* OverallState.deep_research_mode
    is_sufficient,               \* ReflectionState.is_sufficient
    follow_up_queries,           \* ReflectionState.follow_up_queries (append)
    number_of_ran_queries,       \* ReflectionState.number_of_ran_queries
    environ,                     \* os.environ, as far as Configuration reads it
    run_config,                  \* config["configurable"] of the run
    observed_configurations,     \* the Configurations the nodes have obtained
    branches,                    \* the web_research Sends of the open fan-out
    dispatched,                  \* every fan-out of the run, in order
    executions,                  \* how often each node has executed
    reflection_log,              \* what each reflection execution returned
    input_state,                 \* the input the run was started with
    validation,                  \* what validate_sources returned, if it ran
    files,                       \* app.py: the two custom prompt files
    requests,                    \* app.py: the HTTP requests being handled
    last_completed               \* app.py: what the last completed writes did

vars == <<pc, messages, search_query, web_research_result, sources_gathered,
          initial_search_query_count, max_research_loops, research_loop_count,
          deep_research_mode, is_sufficient, follow_up_queries,
          number_of_ran_queries, environ, run_config,
          observed_configurations, branches, dispatched,
          executions, reflection_log, input_state, validation,
          files, requests, last_completed>>

\* ------------------------------------------------------------ configuration

\* Configuration.from_runnable_config: for every field the environment
\* variable of its upper-case name, else the run's configurable entry, else
\* the field's default
from_runnable_config(env, cfg) ==
    [anthropic_api_key |->
        IF env.ANTHROPIC_API_KEY # NoKey
        THEN env.ANTHROPIC_API_KEY
        ELSE cfg.anthropic_api_key,
     max_research_loops |->
        LET raw == IF env.MAX_RESEARCH_LOOPS # None
                   THEN env.MAX_RESEARCH_LOOPS
                   ELSE cfg.max_research_loops
        IN  IF raw = None THEN DefaultMaxResearchLoops ELSE raw,
     \* set by neither the environment nor the run's entries
     deep_research_loops |-> DefaultDeepResearchLoops]

\* what a node gets from Configuration.from_runnable_config(config) now
configurable == from_runnable_config(environ, run_config)

\* `if not configurable.anthropic_api_key`
KeyMissing(cfg) == cfg.anthropic_api_key = NoKey

\* ------------------------------------------------------- routing functions

\* route_search_mode with its two return values swapped
route_search_mode_swapped(count) ==
    IF (IF count = None THEN 1 ELSE count) = 0
    THEN "generate_query"
    ELSE "direct_llm_response"

\* route_search_mode: state.get("initial_search_query_count", 1) == 0
route_search_mode(count) ==
    IF (IF count = None THEN 1 ELSE count) = 0
    THEN "direct_llm_response"
    ELSE "generate_query"

\* continue_to_web_research numbering its Sends from 1
continue_to_web_research_ids_from_one(qs) ==
    [i \in 1..Len(qs) |-> [search_query |-> qs[i], id |-> i, done |-> FALSE]]

\* [Send("web_research", {search_query, id: idx}) for idx, q in enumerate(qs)]
continue_to_web_research(qs) ==
    [i \in 1..Len(qs) |-> [search_query |-> qs[i], id |-> i - 1, done |-> FALSE]]

\* the Sends of evaluate_research's else branch: enumerate(follow_up_queries),
\* entries that are falsy skipped, id = number_of_ran_queries + idx
RECURSIVE FollowUpSends(_, _, _)
FollowUpSends(qs, ran, i) ==
    IF i > Len(qs) THEN <<>>
    ELSE (IF qs[i] # Blank
          THEN <<[search_query |-> qs[i], id |-> ran + (i - 1), done |-> FALSE]>>
          ELSE <<>>) \o FollowUpSends(qs, ran, i + 1)

\* the budget always taken from the configuration, the state's value ignored
EffectiveMaxLoops_config_only(stateMax, cfg) == cfg.max_research_loops

\* max_research_loops of the state when it is not None, else the configured one
EffectiveMaxLoops(stateMax, cfg) ==
    IF stateMax # None THEN stateMax ELSE cfg.max_research_loops

\* evaluate_research with the budget test written > instead of >=
evaluate_research_budget_off_by_one(deep, sources, loops, sufficient, followUps, ran, maxLoops) ==
    IF deep /\ sources # <<>> /\ loops > ValidationLoopThreshold
    THEN [next |-> "validate_sources", sends |-> <<>>]
    ELSE IF sufficient \/ loops > maxLoops
    THEN [next |-> "finalize_answer", sends |-> <<>>]
    ELSE [next |-> "web_research", sends |-> FollowUpSends(followUps, ran, 1)]

\* evaluate_research whose validation test leaves out sources_gathered
evaluate_research_validates_without_sources(deep, sources, loops, sufficient, followUps, ran, maxLoops) ==
    IF deep /\ loops > ValidationLoopThreshold
    THEN [next |-> "validate_sources", sends |-> <<>>]
    ELSE IF sufficient \/ loops >= maxLoops
    THEN [next |-> "finalize_answer", sends |-> <<>>]
    ELSE [next |-> "web_research", sends |-> FollowUpSends(followUps, ran, 1)]

\* evaluate_research testing sufficiency and budget before validation
evaluate_research_finalize_first(deep, sources, loops, sufficient, followUps, ran, maxLoops) ==
    IF sufficient \/ loops >= maxLoops
    THEN [next |-> "finalize_answer", sends |-> <<>>]
    ELSE IF deep /\ sources # <<>> /\ loops > ValidationLoopThreshold
    THEN [next |-> "validate_sources", sends |-> <<>>]
    ELSE [next |-> "web_research", sends |-> FollowUpSends(followUps, ran, 1)]

\* evaluate_research whose validation test is research_loop_count > 3
evaluate_research_validates_one_cycle_later(deep, sources, loops, sufficient, followUps, ran, maxLoops) ==
    IF deep /\ sources # <<>> /\ loops > ValidationLoopThreshold + 1
    THEN [next |-> "validate_sources", sends |-> <<>>]
    ELSE IF sufficient \/ loops >= maxLoops
    THEN [next |-> "finalize_answer", sends |-> <<>>]
    ELSE [next |-> "web_research", sends |-> FollowUpSends(followUps, ran, 1)]

\* evaluate_research: the next node, or the list of web_research Sends
evaluate_research(deep, sources, loops, sufficient, followUps, ran, maxLoops) ==
    IF deep /\ sources # <<>> /\ loops > ValidationLoopThreshold
    THEN [next |-> "validate_sources", sends |-> <<>>]
    ELSE IF sufficient \/ loops >= maxLoops
    THEN [next |-> "finalize_answer", sends |-> <<>>]
    ELSE [next |-> "web_research", sends |-> FollowUpSends(followUps, ran, 1)]

\* --------------------------------------------------------- node functions

\* web_research returning one source record with its result
web_research_one_source(send) ==
    [sources_gathered |-> <<"src1">>,
     search_query |-> <<send.search_query>>,
     web_research_result |-> <<<<"pending", send.search_query>>>>]

\* web_research that also returns a research_loop_count
web_research_writes_loop_count(send) ==
    [sources_gathered |-> <<>>,
     search_query |-> <<send.search_query>>,
     web_research_result |-> <<<<"pending", send.search_query>>>>,
     research_loop_count |-> 0]

\* web_research's partial update for one Send
web_research(send) ==
    [sources_gathered |-> <<>>,
     search_query |-> <<send.search_query>>,
     web_research_result |-> <<<<"pending", send.search_query>>>>]

\* a join that keeps only the update of the last branch (replace, not append)
JoinField_last_writer_wins(bs, fld, i) == web_research(bs[Len(bs)])[fld]

\* the partial updates of a joined fan-out, concatenated in Send order
RECURSIVE JoinField(_, _, _)
JoinField(bs, fld, i) ==
    IF i > Len(bs) THEN <<>>
    ELSE web_research(bs[i])[fld] \o JoinField(bs, fld, i + 1)

\* reflection whose except branch returns the count it was given
reflection_error_keeps_count(loops, queries, cfg, outcome) ==
    IF KeyMissing(cfg)
    THEN [is_sufficient |-> TRUE, follow_up_queries |-> <<>>,
          research_loop_count |-> loops + 1,
          number_of_ran_queries |-> Len(queries),
          knowledge_gap |-> "key_missing"]
    ELSE IF outcome.kind = "raise"
    THEN [is_sufficient |-> TRUE, follow_up_queries |-> <<>>,
          research_loop_count |-> loops,
          number_of_ran_queries |-> Len(queries),
          knowledge_gap |-> "error"]
    ELSE [is_sufficient |-> outcome.is_sufficient,
          follow_up_queries |-> outcome.follow_up_queries,
          research_loop_count |-> loops + 1,
          number_of_ran_queries |-> Len(queries),
          knowledge_gap |-> outcome.knowledge_gap]

\* reflection that counts the loop twice, in the state and in the return
reflection_double_increment(loops, queries, cfg, outcome) ==
    IF KeyMissing(cfg) \/ outcome.kind = "raise"
    THEN [is_sufficient |-> TRUE, follow_up_queries |-> <<>>,
          research_loop_count |-> loops + 2,
          number_of_ran_queries |-> Len(queries),
          knowledge_gap |-> IF KeyMissing(cfg) THEN "key_missing" ELSE "error"]
    ELSE [is_sufficient |-> outcome.is_sufficient,
          follow_up_queries |-> outcome.follow_up_queries,
          research_loop_count |-> loops + 2,
          number_of_ran_queries |-> Len(queries),
          knowledge_gap |-> outcome.knowledge_gap]

\* reflection whose missing-key branch reports insufficient
reflection_missing_key_insufficient(loops, queries, cfg, outcome) ==
    IF KeyMissing(cfg)
    THEN [is_sufficient |-> FALSE, follow_up_queries |-> <<>>,
          research_loop_count |-> loops + 1,
          number_of_ran_queries |-> Len(queries),
          knowledge_gap |-> "key_missing"]
    ELSE IF outcome.kind = "raise"
    THEN [is_sufficient |-> TRUE, follow_up_queries |-> <<>>,
          research_loop_count |-> loops + 1,
          number_of_ran_queries |-> Len(queries),
          knowledge_gap |-> "error"]
    ELSE [is_sufficient |-> outcome.is_sufficient,
          follow_up_queries |-> outcome.follow_up_queries,
          research_loop_count |-> loops + 1,
          number_of_ran_queries |-> Len(queries),
          knowledge_gap |-> outcome.knowledge_gap]

\* reflection whose except branch reports insufficient with a follow-up query
reflection_error_reports_insufficient(loops, queries, cfg, outcome) ==
    IF KeyMissing(cfg)
    THEN [is_sufficient |-> TRUE, follow_up_queries |-> <<>>,
          research_loop_count |-> loops + 1,
          number_of_ran_queries |-> Len(queries),
          knowledge_gap |-> "key_missing"]
    ELSE IF outcome.kind = "raise"
    THEN [is_sufficient |-> FALSE, follow_up_queries |-> <<"f1">>,
          research_loop_count |-> loops + 1,
          number_of_ran_queries |-> Len(queries),
          knowledge_gap |-> "error"]
    ELSE [is_sufficient |-> outcome.is_sufficient,
          follow_up_queries |-> outcome.follow_up_queries,
          research_loop_count |-> loops + 1,
          number_of_ran_queries |-> Len(queries),
          knowledge_gap |-> outcome.knowledge_gap]

\* reflection's partial update; outcome is what the structured call did
reflection(loops, queries, cfg, outcome) ==
    IF KeyMissing(cfg)
    THEN [is_sufficient |-> TRUE, follow_up_queries |-> <<>>,
          research_loop_count |-> loops + 1,
          number_of_ran_queries |-> Len(queries),
          knowledge_gap |-> "key_missing"]
    ELSE IF outcome.kind = "raise"
    THEN [is_sufficient |-> TRUE, follow_up_queries |-> <<>>,
          research_loop_count |-> loops + 1,
          number_of_ran_queries |-> Len(queries),
          knowledge_gap |-> "error"]
    ELSE [is_sufficient |-> outcome.is_sufficient,
          follow_up_queries |-> outcome.follow_up_queries,
          research_loop_count |-> loops + 1,
          number_of_ran_queries |-> Len(queries),
          knowledge_gap |-> outcome.knowledge_gap]

\* sum(s["credibility_score"] for s in source_credibility)
RECURSIVE SumScores(_)
SumScores(cred) ==
    IF cred = <<>> THEN 0
    ELSE Head(cred).credibility_score + SumScores(Tail(cred))

\* validate_sources with the reliability left as the sum of the scores
validate_sources_undivided(deep, sources) ==
    IF ~deep \/ sources = <<>>
    THEN [reliability_score |-> DefaultReliability, source_credibility |-> <<>>]
    ELSE LET cred == [i \in 1..Len(sources) |->
                        [source |-> sources[i],
                         credibility_score |-> CredibilityScore]]
         IN  [reliability_score |-> SumScores(cred),
              source_credibility |-> cred]

\* validate_sources' return value: the skip branch, or one credibility entry
\* per source and sum(scores) / max(len, 1); scores in thousandths
validate_sources(deep, sources) ==
    IF ~deep \/ sources = <<>>
    THEN [reliability_score |-> DefaultReliability, source_credibility |-> <<>>]
    ELSE LET cred == [i \in 1..Len(sources) |->
                        [source |-> sources[i],
                         credibility_score |-> CredibilityScore]]
         IN  [reliability_score |-> SumScores(cred) \div Max(Len(cred), 1),
              source_credibility |-> cred]

\* validate_sources has not run
NoValidation == [reliability_score |-> None, source_credibility |-> <<>>]

\* ------------------------------------------------- app.py: prompt storage

MaxRequests == 2       \* HTTP requests the server receives in one run

\* prompt configurations are opaque values; the defaults are what
\* load_default_prompts and load_default_flow_prompts return
load_default_prompts == "P0"
load_default_flow_prompts == [default_flow |-> "D0", anthropic_flow |-> "A0"]
PromptConfigs == {"P1", "P2"}          \* PromptConfig bodies a client posts
DefaultFlowConfigs == {"D1"}           \* DefaultFlowPrompts bodies
AnthropicFlowConfigs == {"A1"}         \* AnthropicFlowPrompts bodies
FlowConfigs ==                         \* FlowSpecificPrompts bodies
    {[default_flow |-> "D2", anthropic_flow |-> "A2"]}
FlowTypes == {"default", "anthropic", "other"}   \* {flow_type} path values

NoPrompts == "-"
NoFlow == [default_flow |-> "-", anthropic_flow |-> "-"]

\* a file is a flag for its existence and its text, a sequence of tokens
AbsentFile == [exists |-> FALSE, text |-> <<>>]
\* open(file, 'w') creates the file or truncates it
EmptyFile == [exists |-> TRUE, text |-> <<>>]
\* what two overlapping writers of different lengths can leave behind
CorruptText == <<"{", "}", "}">>

\* json.dump(prompts, f)
save_prompts(prompts) == <<"{", prompts, "}">>

\* json.dump(prompts.dict(), f)
save_flow_prompts(prompts) ==
    <<"{", prompts.default_flow, prompts.anthropic_flow, "}">>

\* json.load accepts the text of one object with the expected members
Parses(text, members) ==
    /\ Len(text) = members + 2
    /\ text[1] = "{"
    /\ text[Len(text)] = "}"
    /\ \A i \in 2..(Len(text) - 1) : text[i] \notin {"{", "}"}

\* load_prompts: json.load of the file if it exists and parses (an empty
\* or damaged file raises JSONDecodeError), else the defaults
load_prompts(file) ==
    IF file.exists /\ Parses(file.text, 1)
    THEN file.text[2]
    ELSE load_default_prompts

\* load_flow_prompts: FlowSpecificPrompts(**json.load(f)) if the file exists
\* and parses, else the defaults
load_flow_prompts(file) ==
    IF file.exists /\ Parses(file.text, 2)
    THEN [default_flow |-> file.text[2], anthropic_flow |-> file.text[3]]
    ELSE load_default_flow_prompts

\* a request the server has not received yet
IdleRequest ==
    [op |-> "none", arg |-> NoPrompts, flow_arg |-> NoFlow, step |-> "idle",
     local |-> NoFlow, handle |-> "none", fresh |-> FALSE, before |-> NoFlow,
     status |-> 0, body |-> NoPrompts, flow_body |-> NoFlow]

\* no update or reset has been completed
NothingCompleted ==
    [prompts |-> [config |-> NoPrompts, reset |-> FALSE],
     flow |-> [config |-> NoFlow, reset |-> FALSE]]

\* the server is not part of a graph run
AppIdle ==
    /\ files = [prompts |-> AbsentFile, flow |-> AbsentFile]
    /\ requests = [r \in 1..MaxRequests |-> IdleRequest]
    /\ last_completed = NothingCompleted

AppUnchanged == UNCHANGED <<files, requests, last_completed>>

\* ------------------------------------------------------------------ state

\* the environment at run start holds the API key or not, and no budget
Environments ==
    [ANTHROPIC_API_KEY : {NoKey, "sk-1"}, MAX_RESEARCH_LOOPS : {None}]

\* the run's configurable entries: a budget or none
RunConfigs ==
    [anthropic_api_key : {NoKey},
     max_research_loops : {None} \cup 0..MaxLoops]

\* max_research_loops of the input state: absent, or a budget below the
\* configured default (larger budgets come through the configuration, which
\* evaluate_research reads the same way)
StateBudgets == {None, 0, 1}

Init ==
    /\ pc = "START"
    /\ messages = <<"human">>
    /\ search_query \in SeqsUpTo(InputQueryPool, 1)
    /\ web_research_result = <<>>
    /\ sources_gathered \in SeqsUpTo(SourcePool, 1)
    /\ initial_search_query_count \in {None, 0, 1}
    /\ environ \in Environments
    /\ run_config \in RunConfigs
    /\ observed_configurations = {}
    /\ max_research_loops \in StateBudgets
    /\ max_research_loops # None => run_config.max_research_loops = None
    \* an explicit non-zero count is run with the default budget only
    /\ initial_search_query_count = 1 =>
          (max_research_loops = None /\ run_config.max_research_loops = None)
    /\ research_loop_count = 0
    /\ deep_research_mode \in BOOLEAN
    /\ is_sufficient = FALSE
    /\ follow_up_queries = <<>>
    /\ number_of_ran_queries = 0
    /\ branches = <<>>
    /\ dispatched = <<>>
    /\ executions = [n \in Nodes |-> 0]
    /\ reflection_log = <<>>
    /\ input_state = [search_query |-> search_query,
                      sources_gathered |-> sources_gathered,
                      environ |-> environ]
    /\ validation = NoValidation
    /\ AppIdle

Ran(node) == executions' = [executions EXCEPT ![node] = @ + 1]

\* configurable = Configuration.from_runnable_config(config) at a node's start
ReadConfiguration ==
    observed_configurations' = observed_configurations \cup {configurable}

\* the executor schedules the Sends a routing function returned; a run with
\* nothing scheduled is over
FanOut(sends) ==
    /\ branches' = sends
    /\ dispatched' = Append(dispatched, sends)
    /\ pc' = IF sends = <<>> THEN "END" ELSE "web_research"

\* START -> route_search_mode
Start ==
    /\ pc = "START"
    /\ pc' = route_search_mode(initial_search_query_count)
    /\ AppUnchanged
    /\ UNCHANGED <<input_state, validation, observed_configurations, messages, search_query, web_research_result,
                   sources_gathered, initial_search_query_count,
                   max_research_loops, research_loop_count, deep_research_mode,
                   is_sufficient, follow_up_queries, number_of_ran_queries,
                   environ, run_config, branches, dispatched, executions,
                   reflection_log>>

\* direct_llm_response -> END; llm.invoke may raise
DirectLlmResponse ==
    /\ pc = "direct_llm_response"
    /\ Ran("direct_llm_response")
    /\ ReadConfiguration
    /\ \E outcome \in {"ok", "raise"} :
          IF KeyMissing(configurable)
          THEN /\ messages' = Append(messages, "ai:api_key_not_configured")
               /\ pc' = "END"
          ELSE IF outcome = "ok"
          THEN /\ messages' = Append(messages, "ai:answer")
               /\ pc' = "END"
          ELSE /\ messages' = messages
               /\ pc' = "FAILED"
    /\ AppUnchanged
    /\ UNCHANGED <<input_state, validation, search_query, web_research_result, sources_gathered,
                   initial_search_query_count, max_research_loops,
                   research_loop_count, deep_research_mode, is_sufficient,
                   follow_up_queries, number_of_ran_queries, environ, run_config,
                   branches, dispatched, reflection_log>>

\* what generate_query's calls can do: the structured call returns a query
\* list or raises; after a raise the plain call raises, or returns text that
\* is a JSON list of strings or anything else
GenerateOutcomes ==
    [kind : {"structured", "fallback_list"},
     query : SeqsUpTo(QueryPool, MaxQueries)]
    \cup [kind : {"fallback_other", "fallback_raise"}, query : {<<>>}]

\* generate_query's search_query contribution
generate_query(cfg, outcome) ==
    IF KeyMissing(cfg) THEN <<"Error: API key missing">>
    ELSE IF outcome.kind \in {"structured", "fallback_list"} THEN outcome.query
    ELSE <<"topic">>

\* generate_query -> continue_to_web_research -> web_research x N
GenerateQuery ==
    /\ pc = "generate_query"
    /\ Ran("generate_query")
    /\ ReadConfiguration
    /\ \E outcome \in GenerateOutcomes :
          IF ~KeyMissing(configurable) /\ outcome.kind = "fallback_raise"
          THEN /\ pc' = "FAILED"
               /\ UNCHANGED <<messages, search_query, branches, dispatched>>
          ELSE /\ messages' =
                     IF KeyMissing(configurable)
                     THEN Append(messages, "ai:api_key_not_configured")
                     ELSE messages
               /\ search_query' =
                     search_query \o generate_query(configurable, outcome)
               /\ FanOut(continue_to_web_research(search_query'))
    /\ AppUnchanged
    /\ UNCHANGED <<input_state, validation, web_research_result, sources_gathered,
                   initial_search_query_count, max_research_loops,
                   research_loop_count, deep_research_mode, is_sufficient,
                   follow_up_queries, number_of_ran_queries, environ, run_config,
                   reflection_log>>

\* a barrier that opens as soon as one branch has completed
AllDone_any(bs) == \E i \in 1..Len(bs) : bs[i].done

AllDone(bs) == \A i \in 1..Len(bs) : bs[i].done

\* web_research whose update is merged when the branch completes, not at the
\* join
WebResearch_merge_on_completion(i) ==
    /\ pc = "web_research"
    /\ i \in 1..Len(branches)
    /\ ~branches[i].done
    /\ Ran("web_research")
    /\ LET bs == [branches EXCEPT ![i].done = TRUE] IN
          /\ search_query' = search_query \o web_research(bs[i]).search_query
          /\ web_research_result' =
                web_research_result \o web_research(bs[i]).web_research_result
          /\ sources_gathered' =
                sources_gathered \o web_research(bs[i]).sources_gathered
          /\ branches' = IF AllDone(bs) THEN <<>> ELSE bs
          /\ pc' = IF AllDone(bs) THEN "reflection" ELSE pc
    /\ AppUnchanged
    /\ UNCHANGED <<input_state, validation, observed_configurations, messages, initial_search_query_count, max_research_loops,
                   research_loop_count, deep_research_mode, is_sufficient,
                   follow_up_queries, number_of_ran_queries, environ, run_config,
                   dispatched, reflection_log>>

\* one web_research branch completes; when it is the last of its fan-out the
\* executor merges the group's updates in Send order and moves to reflection
WebResearch(i) ==
    /\ pc = "web_research"
    /\ i \in 1..Len(branches)
    /\ ~branches[i].done
    /\ Ran("web_research")
    /\ LET bs == [branches EXCEPT ![i].done = TRUE] IN
          IF AllDone(bs)
          THEN /\ search_query' =
                     search_query \o JoinField(bs, "search_query", 1)
               /\ web_research_result' =
                     web_research_result \o JoinField(bs, "web_research_result", 1)
               /\ sources_gathered' =
                     sources_gathered \o JoinField(bs, "sources_gathered", 1)
               /\ branches' = <<>>
               /\ pc' = "reflection"
          ELSE /\ branches' = bs
               /\ UNCHANGED <<pc, search_query, web_research_result,
                              sources_gathered>>
    /\ AppUnchanged
    /\ UNCHANGED <<input_state, validation, observed_configurations, messages, initial_search_query_count, max_research_loops,
                   research_loop_count, deep_research_mode, is_sufficient,
                   follow_up_queries, number_of_ran_queries, environ, run_config,
                   dispatched, reflection_log>>

\* what reflection's structured call can do
ReflectionOutcomes ==
    [kind : {"ok"}, is_sufficient : BOOLEAN,
     follow_up_queries : FollowUpLists, knowledge_gap : {"gap"}]
    \cup [kind : {"raise"}, is_sufficient : {FALSE},
          follow_up_queries : {<<>>}, knowledge_gap : {"gap"}]

\* reflection -> evaluate_research -> web_research x K | validate_sources |
\* finalize_answer
Reflection ==
    /\ pc = "reflection"
    /\ Ran("reflection")
    /\ ReadConfiguration
    /\ \E outcome \in ReflectionOutcomes :
          LET update == reflection(research_loop_count, search_query,
                                   configurable, outcome)
              decision == evaluate_research(
                              deep_research_mode, sources_gathered,
                              research_loop_count', is_sufficient',
                              follow_up_queries', number_of_ran_queries',
                              EffectiveMaxLoops(max_research_loops, configurable))
          IN  /\ is_sufficient' = update.is_sufficient
              /\ follow_up_queries' =
                     follow_up_queries \o update.follow_up_queries
              /\ research_loop_count' = update.research_loop_count
              /\ number_of_ran_queries' = update.number_of_ran_queries
              /\ reflection_log' = Append(reflection_log, update)
              /\ IF decision.next = "web_research"
                 THEN FanOut(decision.sends)
                 ELSE /\ pc' = decision.next
                      /\ UNCHANGED <<branches, dispatched>>
    /\ AppUnchanged
    /\ UNCHANGED <<input_state, validation, messages, search_query, web_research_result,
                   sources_gathered, initial_search_query_count,
                   max_research_loops, deep_research_mode, environ, run_config>>

\* validate_sources with its outgoing edge leading back into the research loop
ValidateSources_back_to_reflection ==
    /\ pc = "validate_sources"
    /\ Ran("validate_sources")
    /\ ReadConfiguration
    /\ validation' = validate_sources(deep_research_mode, sources_gathered)
    /\ pc' = "reflection"
    /\ AppUnchanged
    /\ UNCHANGED <<input_state, messages, search_query, web_research_result,
                   sources_gathered, initial_search_query_count,
                   max_research_loops, research_loop_count, deep_research_mode,
                   is_sufficient, follow_up_queries, number_of_ran_queries,
                   environ, run_config, branches, dispatched, reflection_log>>

\* validate_sources -> finalize_answer; the keys it returns (validation_results,
\* reliability_score, contradictions_found, source_credibility) are no fields
\* of the run state
ValidateSources ==
    /\ pc = "validate_sources"
    /\ Ran("validate_sources")
    /\ ReadConfiguration
    /\ validation' = validate_sources(deep_research_mode, sources_gathered)
    /\ pc' = "finalize_answer"
    /\ AppUnchanged
    /\ UNCHANGED <<input_state, messages, search_query, web_research_result,
                   sources_gathered, initial_search_query_count,
                   max_research_loops, research_loop_count, deep_research_mode,
                   is_sufficient, follow_up_queries, number_of_ran_queries,
                   environ, run_config, branches, dispatched, reflection_log>>

\* finalize_answer -> END; llm.invoke may raise; the sources it returns go
\* through the append reducer of sources_gathered
FinalizeAnswer ==
    /\ pc = "finalize_answer"
    /\ Ran("finalize_answer")
    /\ ReadConfiguration
    /\ \E outcome \in {"ok", "raise"} :
          IF KeyMissing(configurable)
          THEN /\ messages' = Append(messages, "ai:api_key_not_configured")
               /\ sources_gathered' = sources_gathered \o sources_gathered
               /\ pc' = "END"
          ELSE IF outcome = "ok"
          THEN /\ messages' = Append(messages, "ai:answer")
               /\ sources_gathered' = sources_gathered \o sources_gathered
               /\ pc' = "END"
          ELSE /\ UNCHANGED <<messages, sources_gathered>>
               /\ pc' = "FAILED"
    /\ AppUnchanged
    /\ UNCHANGED <<input_state, validation, search_query, web_research_result,
                   initial_search_query_count, max_research_loops,
                   research_loop_count, deep_research_mode, is_sufficient,
                   follow_up_queries, number_of_ran_queries, environ, run_config,
                   branches, dispatched, reflection_log>>

Next ==
    \/ Start
    \/ DirectLlmResponse
    \/ GenerateQuery
    \/ \E i \in 1..Len(branches) : WebResearch(i)
    \/ Reflection
    \/ ValidateSources
    \/ FinalizeAnswer

Spec == Init /\ [][Next]_vars

\* the environment variables another thread of the process may set or unset
\* while a run is in flight (one change per run is modelled)
EnvironmentChange ==
    /\ pc \notin {"START", "END", "FAILED"}
    /\ environ = input_state.environ
    /\ \/ \E key \in {NoKey, "sk-1", "sk-2"} \ {environ.ANTHROPIC_API_KEY} :
             environ' = [environ EXCEPT !.ANTHROPIC_API_KEY = key]
       \/ \E loops \in 0..MaxLoops :
             environ' = [environ EXCEPT !.MAX_RESEARCH_LOOPS = loops]
    /\ UNCHANGED <<pc, messages, search_query, web_research_result,
                   sources_gathered, initial_search_query_count,
                   max_research_loops, research_loop_count, deep_research_mode,
                   is_sufficient, follow_up_queries, number_of_ran_queries,
                   run_config, observed_configurations, branches, dispatched,
                   executions, reflection_log, input_state, validation,
                   files, requests, last_completed>>

\* the graph run in a process whose environment changes during the run
SpecEnv == Init /\ [][Next \/ EnvironmentChange]_vars

\* ============================================== the multi-agent graph
\* backend/src/agent/multi_agent_graph.py over the same run state; the fields
\* only the Claude graph writes keep their initial values.

MultiAgentNodes ==
    {"lead_agent", "search_subagent", "citations_subagent", "finalize_report"}

\* the plan texts llm.invoke may return to lead_agent_orchestrator
PlanPool == {"plan a", "plan b"}

\* lead_agent_orchestrator leaving out the last research aspect
lead_agent_orchestrator_three_aspects ==
    <<"topic Core concepts and definitions",
      "topic Recent developments and trends",
      "topic Expert opinions and analysis">>

\* lead_agent_orchestrator's search tasks: the topic with each of the four
\* fixed research aspects
lead_agent_orchestrator ==
    <<"topic Core concepts and definitions",
      "topic Recent developments and trends",
      "topic Expert opinions and analysis",
      "topic Statistical data and evidence">>

\* [Send("search_subagent", {search_query, id: idx}) for idx, q in enumerate(qs)]
continue_to_search_subagents(qs) ==
    [i \in 1..Len(qs) |->
        [search_query |-> qs[i], id |-> i - 1, done |-> FALSE,
         failed |-> FALSE, sources |-> <<>>]]

\* search_subagent's partial update for one completed Send
search_subagent(send) ==
    [sources_gathered |-> send.sources,
     web_research_result |-> <<<<"result", send.search_query>>>>]

RECURSIVE JoinSubagents(_, _, _)
JoinSubagents(bs, fld, i) ==
    IF i > Len(bs) THEN <<>>
    ELSE search_subagent(bs[i])[fld] \o JoinSubagents(bs, fld, i + 1)

\* citations_subagent's web_research_result: the list it read plus one entry
citations_subagent(results) ==
    Append(results, <<"Citations Added", "cited">>)

ClaudeFieldsUnchanged ==
    UNCHANGED <<initial_search_query_count, max_research_loops,
                research_loop_count, deep_research_mode, is_sufficient,
                follow_up_queries, number_of_ran_queries, environ, run_config,
                reflection_log, input_state, validation,
                files, requests, last_completed>>

MultiAgentInit ==
    /\ pc = "START"
    /\ messages = <<"human">>
    /\ search_query \in SeqsUpTo(InputQueryPool, 1)
    /\ web_research_result = <<>>
    /\ sources_gathered \in SeqsUpTo(SourcePool, 1)
    /\ initial_search_query_count = None
    /\ environ \in Environments
    /\ run_config \in RunConfigs
    /\ observed_configurations = {}
    /\ max_research_loops = None
    /\ research_loop_count = 0
    /\ deep_research_mode \in BOOLEAN
    /\ is_sufficient = FALSE
    /\ follow_up_queries = <<>>
    /\ number_of_ran_queries = 0
    /\ branches = <<>>
    /\ dispatched = <<>>
    /\ executions = [n \in MultiAgentNodes |-> 0]
    /\ reflection_log = <<>>
    /\ input_state = [search_query |-> search_query,
                      sources_gathered |-> sources_gathered,
                      environ |-> environ]
    /\ validation = NoValidation
    /\ AppIdle

\* START -> lead_agent
MultiAgentStart ==
    /\ pc = "START"
    /\ pc' = "lead_agent"
    /\ UNCHANGED <<messages, search_query, web_research_result,
                   sources_gathered, observed_configurations, branches,
                   dispatched, executions>>
    /\ ClaudeFieldsUnchanged

\* lead_agent -> continue_to_search_subagents -> search_subagent x N;
\* llm.invoke may raise
LeadAgent ==
    /\ pc = "lead_agent"
    /\ Ran("lead_agent")
    /\ ReadConfiguration
    /\ \E outcome \in {"raise"} \cup PlanPool :
          IF outcome = "raise"
          THEN /\ pc' = "FAILED"
               /\ UNCHANGED <<search_query, web_research_result, branches,
                              dispatched>>
          ELSE /\ web_research_result' =
                     web_research_result \o <<<<"Research Plan", outcome>>>>
               /\ search_query' = search_query \o lead_agent_orchestrator
               /\ branches' = continue_to_search_subagents(search_query')
               /\ dispatched' = Append(dispatched, branches')
               /\ pc' = "search_subagent"
    /\ UNCHANGED <<messages, sources_gathered>>
    /\ ClaudeFieldsUnchanged

\* what one search_subagent can do: raise (generate_content or the reading
\* of its response fails), or return its text with no or one citation
SubagentOutcomes ==
    [kind : {"raise"}, sources : {<<>>}]
    \cup [kind : {"ok"}, sources : {<<>>, <<"src2">>}]

\* one search_subagent branch completes or raises; an exception leaves the
\* node and ends the run, nothing of the open fan-out being merged; the last
\* completion merges the group in Send order and moves to citations_subagent
SearchSubagent(i) ==
    /\ pc = "search_subagent"
    /\ i \in 1..Len(branches)
    /\ ~branches[i].done
    /\ Ran("search_subagent")
    /\ ReadConfiguration
    /\ \E outcome \in SubagentOutcomes :
          IF outcome.kind = "raise"
          THEN /\ branches' = [branches EXCEPT ![i].failed = TRUE]
               /\ pc' = "FAILED"
               /\ UNCHANGED <<web_research_result, sources_gathered>>
          ELSE LET bs == [branches EXCEPT ![i].done = TRUE,
                                          ![i].sources = outcome.sources]
               IN  IF AllDone(bs)
                   THEN /\ web_research_result' =
                              web_research_result
                              \o JoinSubagents(bs, "web_research_result", 1)
                        /\ sources_gathered' =
                              sources_gathered
                              \o JoinSubagents(bs, "sources_gathered", 1)
                        /\ branches' = <<>>
                        /\ pc' = "citations_subagent"
                   ELSE /\ branches' = bs
                        /\ UNCHANGED <<pc, web_research_result,
                                       sources_gathered>>
    /\ UNCHANGED <<messages, search_query, dispatched>>
    /\ ClaudeFieldsUnchanged

\* citations_subagent -> finalize_report; llm.invoke may raise; the list it
\* returns goes through the append reducer of web_research_result
CitationsSubagent ==
    /\ pc = "citations_subagent"
    /\ Ran("citations_subagent")
    /\ ReadConfiguration
    /\ \E outcome \in {"ok", "raise"} :
          IF outcome = "raise"
          THEN pc' = "FAILED" /\ UNCHANGED web_research_result
          ELSE /\ web_research_result' =
                     web_research_result
                     \o citations_subagent(web_research_result)
               /\ pc' = "finalize_report"
    /\ UNCHANGED <<messages, search_query, sources_gathered, branches,
                   dispatched>>
    /\ ClaudeFieldsUnchanged

\* finalize_report -> END; llm.invoke may raise; the sources it returns go
\* through the append reducer of sources_gathered
FinalizeReport ==
    /\ pc = "finalize_report"
    /\ Ran("finalize_report")
    /\ ReadConfiguration
    /\ \E outcome \in {"ok", "raise"} :
          IF outcome = "raise"
          THEN pc' = "FAILED" /\ UNCHANGED <<messages, sources_gathered>>
          ELSE /\ messages' = Append(messages, "ai:answer")
               /\ sources_gathered' = sources_gathered \o sources_gathered
               /\ pc' = "END"
    /\ UNCHANGED <<search_query, web_research_result, branches, dispatched>>
    /\ ClaudeFieldsUnchanged

MultiAgentNext ==
    \/ MultiAgentStart
    \/ LeadAgent
    \/ \E i \in 1..Len(branches) : SearchSubagent(i)
    \/ CitationsSubagent
    \/ FinalizeReport

MultiAgentSpec == MultiAgentInit /\ [][MultiAgentNext]_vars

\* the executor runs every task it has scheduled
MultiAgentFairSpec == MultiAgentSpec /\ WF_vars(MultiAgentNext)

\* ================================================== either graph, one run
\* a run is a run of the graph whose nodes it counts
ClaudeGraphStep == DOMAIN executions = Nodes /\ Next

MultiAgentGraphStep == DOMAIN executions = MultiAgentNodes /\ MultiAgentNext

GraphsSpec ==
    (Init \/ MultiAgentInit) /\ [][ClaudeGraphStep \/ MultiAgentGraphStep]_vars

\* =========================================== validate_sources on its own
\* validate_sources called on any state: deep_research_mode on or off and
\* any sources_gathered of up to MaxSources records
ValidationSourcePool == {"src1", "src2", "src3"}

ValidateSourcesInit ==
    /\ pc = "validate_sources"
    /\ messages = <<"human">>
    /\ search_query = <<>>
    /\ web_research_result = <<>>
    /\ sources_gathered \in SeqsUpTo(ValidationSourcePool, MaxSources)
    /\ initial_search_query_count = None
    /\ environ \in Environments
    /\ run_config = [anthropic_api_key |-> NoKey, max_research_loops |-> None]
    /\ observed_configurations = {}
    /\ max_research_loops = None
    /\ research_loop_count = 0
    /\ deep_research_mode \in BOOLEAN
    /\ is_sufficient = FALSE
    /\ follow_up_queries = <<>>
    /\ number_of_ran_queries = 0
    /\ branches = <<>>
    /\ dispatched = <<>>
    /\ executions = [n \in Nodes |-> 0]
    /\ reflection_log = <<>>
    /\ input_state = [search_query |-> search_query,
                      sources_gathered |-> sources_gathered,
                      environ |-> environ]
    /\ validation = NoValidation
    /\ AppIdle

ValidateSpec == ValidateSourcesInit /\ [][ValidateSources]_vars

\* ------------------------------------------------- app.py: the handlers

PromptOps == {"get_prompts", "update_prompts", "reset_prompts"}

\* the file a handler works on: PROMPTS_CONFIG_FILE or FLOW_PROMPTS_CONFIG_FILE
FileOf(op) == IF op \in PromptOps THEN "prompts" ELSE "flow"

\* the calls a client makes: <<handler, path or body argument, flow body>>
Calls ==
    {<<op, NoPrompts, NoFlow>> :
        op \in {"get_prompts", "reset_prompts",
                "get_flow_prompts", "reset_flow_prompts"}}
    \cup {<<"update_prompts", config, NoFlow>> : config \in PromptConfigs}
    \cup {<<"update_flow_prompts", NoPrompts, config>> : config \in FlowConfigs}
    \cup {<<"update_default_flow_prompts", prompts, NoFlow>> :
             prompts \in DefaultFlowConfigs}
    \cup {<<"update_anthropic_flow_prompts", prompts, NoFlow>> :
             prompts \in AnthropicFlowConfigs}
    \cup {<<op, flow_type, NoFlow>> :
             op \in {"get_flow_prompts_by_type", "reset_flow_prompts_by_type"},
             flow_type \in FlowTypes}

InFlight(r) == requests[r].step \notin {"idle", "done"}

At(r, op, step) == requests[r].op = op /\ requests[r].step = step

\* the test of flow_type that accepts every value
ValidFlowType_any(flow_type) == TRUE

\* if flow_type == "default": ... elif flow_type == "anthropic": ... else: 400
ValidFlowType(flow_type) == flow_type \in {"default", "anthropic"}

\* the assignment that starts from the defaults instead of the loaded prompts
set_flow_from_defaults(current_flow_prompts, flow_type, prompts) ==
    IF flow_type = "default"
    THEN [load_default_flow_prompts EXCEPT !.default_flow = prompts]
    ELSE [load_default_flow_prompts EXCEPT !.anthropic_flow = prompts]

\* current_flow_prompts.default_flow = prompts, or .anthropic_flow = prompts
set_flow(current_flow_prompts, flow_type, prompts) ==
    IF flow_type = "default"
    THEN [current_flow_prompts EXCEPT !.default_flow = prompts]
    ELSE IF flow_type = "anthropic"
    THEN [current_flow_prompts EXCEPT !.anthropic_flow = prompts]
    ELSE current_flow_prompts

\* the flow_type part of flow prompts
FlowPart(flow_prompts, flow_type) ==
    IF flow_type = "default"
    THEN flow_prompts.default_flow
    ELSE flow_prompts.anthropic_flow

\* an unlink that empties the file and leaves it in place
unlink_truncates(file) == EmptyFile

\* Path.unlink(): the name is removed
unlink(file) == AbsentFile

\* the handler of r returns or raises: the response goes out.  changed is
\* the file an update or reset of which completes with it, unlinked the
\* file it removed (writers that hold the removed file open keep writing
\* to it, out of reach of every later open)
Respond(r, status, body, flow_body, changed, unlinked) ==
    requests' = [q \in 1..MaxRequests |->
        IF q = r
        THEN [requests[r] EXCEPT !.step = "done", !.status = status,
                                 !.body = body, !.flow_body = flow_body,
                                 !.handle = "none", !.fresh = FALSE,
                                 !.local = NoFlow, !.before = NoFlow]
        ELSE [requests[q] EXCEPT
                !.fresh = @ /\ FileOf(requests[q].op) # changed,
                !.handle = IF @ = "open" /\ FileOf(requests[q].op) = unlinked
                           THEN "orphan"
                           ELSE @]]

\* an update or reset of the file completes; config is what an update of
\* the whole file stored, reset tells whether the file was reset
Completes(file, config, reset) ==
    last_completed' = [last_completed EXCEPT ![file] =
        [config |-> config, reset |-> reset]]

\* request r reaches the server
Arrive(r, call) ==
    /\ requests[r].step = "idle"
    /\ r > 1 => requests[r - 1].step # "idle"
    /\ requests' = [requests EXCEPT ![r] =
          [IdleRequest EXCEPT !.op = call[1], !.arg = call[2],
                              !.flow_arg = call[3], !.step = "arrived",
                              !.fresh = TRUE,
                              !.before = load_flow_prompts(files.flow)]]
    /\ UNCHANGED <<files, last_completed>>

\* with open(FILE, 'w') as f: the file is created or emptied
SaveOpen(r, file) ==
    /\ files' = [files EXCEPT ![file] = EmptyFile]
    /\ requests' = [requests EXCEPT ![r].step = "opened", ![r].handle = "open"]
    /\ last_completed' = [last_completed EXCEPT ![file].reset = FALSE]

\* what the file holds after text is written through handle and closed:
\* nothing new if the file was removed meanwhile; text, or the remains of
\* two texts, if another writer wrote meanwhile
WriteOutcomes(file, handle, text) ==
    IF handle = "orphan"
    THEN {file}
    ELSE IF file.text \in {<<>>, text}
    THEN {[exists |-> TRUE, text |-> text]}
    ELSE {[exists |-> TRUE, text |-> text],
          [exists |-> TRUE, text |-> CorruptText]}

\* json.dump(..., f) and the close of the file
SaveWrite(r, file, text) ==
    \E written \in WriteOutcomes(files[file], requests[r].handle, text) :
        files' = [files EXCEPT ![file] = written]

\* @app.get("/api/prompts")
get_prompts(r) ==
    /\ At(r, "get_prompts", "arrived")
    /\ Respond(r, 200, load_prompts(files.prompts), NoFlow, "none", "none")
    /\ UNCHANGED <<files, last_completed>>

\* @app.post("/api/prompts")
update_prompts(r) ==
    \/ /\ At(r, "update_prompts", "arrived")
       /\ SaveOpen(r, "prompts")
    \/ /\ At(r, "update_prompts", "opened")
       /\ SaveWrite(r, "prompts", save_prompts(requests[r].arg))
       /\ Respond(r, 200, "updated", NoFlow, "prompts", "none")
       /\ Completes("prompts", requests[r].arg, last_completed.prompts.reset)

\* @app.post("/api/prompts/reset")
reset_prompts(r) ==
    \/ /\ At(r, "reset_prompts", "arrived")
       /\ IF files.prompts.exists
          THEN /\ requests' = [requests EXCEPT ![r].step = "checked"]
               /\ UNCHANGED <<files, last_completed>>
          ELSE /\ Respond(r, 200, load_default_prompts, NoFlow,
                          "prompts", "none")
               /\ Completes("prompts", NoPrompts, TRUE)
               /\ UNCHANGED files
    \/ /\ At(r, "reset_prompts", "checked")
       /\ IF files.prompts.exists
          THEN /\ files' = [files EXCEPT !.prompts = unlink(@)]
               /\ Respond(r, 200, load_default_prompts, NoFlow,
                          "prompts", "prompts")
               /\ Completes("prompts", NoPrompts, TRUE)
          ELSE \* FileNotFoundError
               /\ Respond(r, 500, "Failed to reset prompts", NoFlow,
                          "prompts", "none")
               /\ Completes("prompts", NoPrompts, last_completed.prompts.reset)
               /\ UNCHANGED files

\* @app.get("/api/flow-prompts")
get_flow_prompts(r) ==
    /\ At(r, "get_flow_prompts", "arrived")
    /\ Respond(r, 200, NoPrompts, load_flow_prompts(files.flow),
               "none", "none")
    /\ UNCHANGED <<files, last_completed>>

\* @app.get("/api/flow-prompts/{flow_type}")
get_flow_prompts_by_type(r) ==
    /\ At(r, "get_flow_prompts_by_type", "arrived")
    /\ IF ValidFlowType(requests[r].arg)
       THEN Respond(r, 200,
                    FlowPart(load_flow_prompts(files.flow), requests[r].arg),
                    NoFlow, "none", "none")
       ELSE Respond(r, 400, "Invalid flow type", NoFlow, "none", "none")
    /\ UNCHANGED <<files, last_completed>>

\* @app.post("/api/flow-prompts")
update_flow_prompts(r) ==
    \/ /\ At(r, "update_flow_prompts", "arrived")
       /\ SaveOpen(r, "flow")
    \/ /\ At(r, "update_flow_prompts", "opened")
       /\ SaveWrite(r, "flow", save_flow_prompts(requests[r].flow_arg))
       /\ Respond(r, 200, "updated", NoFlow, "flow", "none")
       /\ Completes("flow", requests[r].flow_arg, last_completed.flow.reset)

\* the load, the assignment and the save of an update of one flow
UpdateOneFlow(r, op, flow_type) ==
    \/ /\ At(r, op, "arrived")
       /\ requests' = [requests EXCEPT
             ![r].step = "loaded",
             ![r].local = set_flow(load_flow_prompts(files.flow), flow_type,
                                   requests[r].arg)]
       /\ UNCHANGED <<files, last_completed>>
    \/ /\ At(r, op, "loaded")
       /\ SaveOpen(r, "flow")
    \/ /\ At(r, op, "opened")
       /\ SaveWrite(r, "flow", save_flow_prompts(requests[r].local))
       /\ Respond(r, 200, "updated", NoFlow, "flow", "none")
       /\ Completes("flow", NoFlow, last_completed.flow.reset)

\* @app.post("/api/flow-prompts/default")
update_default_flow_prompts(r) ==
    UpdateOneFlow(r, "update_default_flow_prompts", "default")

\* @app.post("/api/flow-prompts/anthropic")
update_anthropic_flow_prompts(r) ==
    UpdateOneFlow(r, "update_anthropic_flow_prompts", "anthropic")

\* @app.post("/api/flow-prompts/reset")
reset_flow_prompts(r) ==
    /\ At(r, "reset_flow_prompts", "arrived")
    /\ files' = [files EXCEPT !.flow = IF @.exists THEN unlink(@) ELSE @]
    /\ Respond(r, 200, NoPrompts, load_default_flow_prompts, "flow",
               IF files.flow.exists THEN "flow" ELSE "none")
    /\ Completes("flow", NoFlow, TRUE)

\* @app.post("/api/flow-prompts/reset/{flow_type}")
reset_flow_prompts_by_type(r) ==
    \/ /\ At(r, "reset_flow_prompts_by_type", "arrived")
       /\ IF ValidFlowType(requests[r].arg)
          THEN requests' = [requests EXCEPT
                  ![r].step = "loaded",
                  ![r].local =
                      set_flow(load_flow_prompts(files.flow), requests[r].arg,
                               FlowPart(load_default_flow_prompts,
                                        requests[r].arg))]
          ELSE Respond(r, 400, "Invalid flow type", NoFlow, "none", "none")
       /\ UNCHANGED <<files, last_completed>>
    \/ /\ At(r, "reset_flow_prompts_by_type", "loaded")
       /\ SaveOpen(r, "flow")
    \/ /\ At(r, "reset_flow_prompts_by_type", "opened")
       /\ SaveWrite(r, "flow", save_flow_prompts(requests[r].local))
       /\ Respond(r, 200,
                  FlowPart(load_default_flow_prompts, requests[r].arg),
                  NoFlow, "flow", "none")
       /\ Completes("flow", NoFlow, last_completed.flow.reset)

\* no graph run takes place while the prompt endpoints are exercised
GraphUnchanged ==
    UNCHANGED <<pc, messages, search_query, web_research_result,
                sources_gathered, initial_search_query_count,
                max_research_loops, research_loop_count, deep_research_mode,
                is_sufficient, follow_up_queries, number_of_ran_queries,
                environ, run_config, observed_configurations, branches,
                dispatched, executions, reflection_log, input_state,
                validation>>

\* the files a server can find when it starts: none, or what earlier
\* updates stored
StoredPrompts == {AbsentFile} \cup
    {[exists |-> TRUE, text |-> save_prompts(config)] :
        config \in PromptConfigs}

StoredFlowPrompts == {AbsentFile} \cup
    {[exists |-> TRUE, text |-> save_flow_prompts(config)] :
        config \in FlowConfigs}

\* what was completed before the server started: the update that stored
\* the file, or nothing or a reset if there is no file
EarlierCompleted(file, none, stored) ==
    IF file.exists
    THEN {[config |-> stored, reset |-> FALSE]}
    ELSE {[config |-> none, reset |-> reset] : reset \in BOOLEAN}

AppInit ==
    /\ pc = "SERVING"
    /\ messages = <<>>
    /\ search_query = <<>>
    /\ web_research_result = <<>>
    /\ sources_gathered = <<>>
    /\ initial_search_query_count = None
    /\ environ = CHOOSE env \in Environments : TRUE
    /\ run_config = CHOOSE cfg \in RunConfigs : TRUE
    /\ observed_configurations = {}
    /\ max_research_loops = None
    /\ research_loop_count = 0
    /\ deep_research_mode = FALSE
    /\ is_sufficient = FALSE
    /\ follow_up_queries = <<>>
    /\ number_of_ran_queries = 0
    /\ branches = <<>>
    /\ dispatched = <<>>
    /\ executions = [n \in {} |-> 0]
    /\ reflection_log = <<>>
    /\ input_state = [search_query |-> search_query,
                      sources_gathered |-> sources_gathered,
                      environ |-> environ]
    /\ validation = NoValidation
    /\ files \in [prompts : StoredPrompts, flow : StoredFlowPrompts]
    /\ requests = [r \in 1..MaxRequests |-> IdleRequest]
    /\ last_completed \in [prompts : EarlierCompleted(files.prompts, NoPrompts,
                                                     load_prompts(files.prompts)),
                           flow : EarlierCompleted(files.flow, NoFlow,
                                                   load_flow_prompts(files.flow))]

Handle(r) ==
    \/ get_prompts(r)
    \/ update_prompts(r)
    \/ reset_prompts(r)
    \/ get_flow_prompts(r)
    \/ get_flow_prompts_by_type(r)
    \/ update_flow_prompts(r)
    \/ update_default_flow_prompts(r)
    \/ update_anthropic_flow_prompts(r)
    \/ reset_flow_prompts(r)
    \/ reset_flow_prompts_by_type(r)

\* requests arrive at any time and are handled concurrently
AppNext ==
    /\ GraphUnchanged
    /\ \E r \in 1..MaxRequests :
          \/ \E call \in Calls : Arrive(r, call)
          \/ Handle(r)

AppSpec == AppInit /\ [][AppNext]_vars

\* a request arrives only when no other request is being handled
AppSeqNext ==
    /\ GraphUnchanged
    /\ \E r \in 1..MaxRequests :
          \/ /\ \A q \in 1..MaxRequests : ~InFlight(q)
             /\ \E call \in Calls : Arrive(r, call)
          \/ Handle(r)

AppSeqSpec == AppInit /\ [][AppSeqNext]_vars

\* ================================================================== claims

\* the loop budget evaluate_research compares research_loop_count with
Budget ==
    IF max_research_loops # None
    THEN max_research_loops
    ELSE configurable.max_research_loops

HasNonBlank(qs) == \E i \in 1..Len(qs) : qs[i] # Blank

LastReflection == reflection_log[Len(reflection_log)]

\* C1: a run that is over ended after direct_llm_response or finalize_answer
\* appended its final (or degraded-explanation) message to the conversation.
C1_EndOnlyAfterFinalMessage ==
    pc = "END" =>
        /\ executions["direct_llm_response"] + executions["finalize_answer"] >= 1
        /\ messages[Len(messages)] \in {"ai:answer", "ai:api_key_not_configured"}

\* C2: an evaluation at which research_loop_count >= max_research_loops
\* dispatches no web_research fan-out and routes to validate_sources or
\* finalize_answer.
C2_BudgetExhaustedNeverFansOut ==
    [][(pc = "reflection" /\ research_loop_count' >= Budget)
          => /\ pc' \in {"validate_sources", "finalize_answer"}
             /\ dispatched' = dispatched]_vars

\* C2 witness: the budget is exhausted by a reflection that reported
\* insufficient with a non-blank follow-up query, and the run is at
\* finalize_answer.
C2_Witness ==
    /\ pc = "finalize_answer"
    /\ reflection_log # <<>>
    /\ ~LastReflection.is_sufficient
    /\ HasNonBlank(LastReflection.follow_up_queries)
    /\ research_loop_count >= Budget

\* C3: research_loop_count equals the number of reflection executions so far.
C3_LoopCountIsReflectionCount ==
    research_loop_count = executions["reflection"]

\* C3 witness: two reflections have executed, the second one on its
\* sufficient path, and the count is two.
C3_Witness ==
    /\ executions["reflection"] = 2
    /\ research_loop_count = 2
    /\ is_sufficient

\* C4 (as stated): research_loop_count never decreases and never exceeds
\* max_research_loops, for every budget >= 0.
C4_LoopCountBoundedByBudget ==
    [][/\ research_loop_count' >= research_loop_count
       /\ research_loop_count' <= Budget']_vars

\* C4 (amended): research_loop_count never decreases and never exceeds
\* max(max_research_loops, 1): it is bounded by every budget >= 1, and with
\* a budget of 0 the one evaluation cycle a search run always makes brings
\* it to 1.
C4_LoopCountBoundedByPositiveBudget ==
    [][/\ research_loop_count' >= research_loop_count
       /\ research_loop_count' <= Max(Budget', 1)]_vars

\* C4 witness: the count has reached a budget of at least two.
C4_Witness ==
    /\ Budget >= 2
    /\ research_loop_count = Budget

\* every reflection so far reported insufficient with one non-blank query
AlwaysInsufficientOneFollowUp ==
    \A i \in 1..Len(reflection_log) :
        /\ ~reflection_log[i].is_sufficient
        /\ Len(reflection_log[i].follow_up_queries) = 1
        /\ reflection_log[i].follow_up_queries[1] # Blank

\* C5: deep research off, budget M >= 1, every reflection insufficient with
\* one non-blank follow-up query: never more than M reflections; the M-th one
\* routes to finalize_answer after M - 1 follow-up fan-outs; finalize_answer
\* runs only after exactly M reflections, and validate_sources never.
C5_ExactlyBudgetCycles ==
    (~deep_research_mode /\ Budget >= 1 /\ AlwaysInsufficientOneFollowUp) =>
        /\ executions["reflection"] <= Budget
        /\ executions["validate_sources"] = 0
        /\ executions["reflection"] = Budget =>
              /\ pc \in {"finalize_answer", "END", "FAILED"}
              /\ Len(dispatched) = Budget
        /\ (pc = "finalize_answer" \/ executions["finalize_answer"] > 0) =>
              executions["reflection"] = Budget

\* C5 witness: budget 2, both reflections insufficient with one follow-up
\* query, finalize_answer has run and the run is over.
C5_Witness ==
    /\ ~deep_research_mode
    /\ Budget = 2
    /\ AlwaysInsufficientOneFollowUp
    /\ executions["reflection"] = 2
    /\ executions["finalize_answer"] = 1
    /\ pc = "END"

C7_InitialFanOutOnePerQuery ==
    [][(pc = "generate_query" /\ pc' # "FAILED"
        /\ input_state.search_query = <<>>)
          => /\ Len(dispatched') = 1
             /\ Len(dispatched'[1]) = Len(search_query')
             /\ \A i \in 1..Len(search_query') :
                   /\ dispatched'[1][i].search_query = search_query'[i]
                   /\ dispatched'[1][i].id = i - 1
             /\ \A i, j \in 1..Len(dispatched'[1]) :
                   i # j => dispatched'[1][i].id # dispatched'[1][j].id]_vars

\* C7 witness: two queries were generated from an empty search_query and two
\* branches with ids 0 and 1 are open.
C7_Witness ==
    /\ input_state.search_query = <<>>
    /\ pc = "web_research"
    /\ Len(dispatched) = 1
    /\ Len(search_query) = 2
    /\ Len(branches) = 2
    /\ branches[1].id = 0
    /\ branches[2].id = 1

\* every Send of the run so far, fan-out after fan-out
RECURSIVE AllSends(_)
AllSends(k) ==
    IF k = 0 THEN <<>> ELSE AllSends(k - 1) \o dispatched[k]

\* C8: no two web_research branches dispatched in the run carry the same id.
C8_BranchIdsUnique ==
    LET all == AllSends(Len(dispatched)) IN
    \A i, j \in 1..Len(all) : i # j => all[i].id # all[j].id

\* C9: the ids of a follow-up fan-out start at the number of web_research
\* branches dispatched in all earlier fan-outs and go up one by one.
C9_FollowUpIdsStartAtBranchTotal ==
    \A k \in 2..Len(dispatched) :
        \A j \in 1..Len(dispatched[k]) :
            dispatched[k][j].id = Len(AllSends(k - 1)) + (j - 1)

\* C10: validate_sources is selected, and executes, only when
\* deep_research_mode is true, sources_gathered is non-empty and
\* research_loop_count > 2.
C10_ValidationOnlyWhenEligible ==
    (pc = "validate_sources" \/ executions["validate_sources"] > 0) =>
        /\ deep_research_mode
        /\ sources_gathered # <<>>
        /\ research_loop_count > 2

\* C10 witness: evaluate_research has selected validate_sources.
C10_Witness ==
    /\ pc = "validate_sources"
    /\ executions["validate_sources"] = 0

\* validation eligibility as evaluate_research tests it after a reflection
Eligible ==
    /\ deep_research_mode
    /\ sources_gathered # <<>>
    /\ research_loop_count > 2

\* C11: whenever deep_research_mode is true, sources_gathered is non-empty
\* and research_loop_count > 2 at an evaluation, evaluate_research returns
\* validate_sources, also when is_sufficient is true or the budget is
\* exhausted; it finalizes or fans out only when that does not hold.
C11_ValidationHasPriority ==
    [][pc = "reflection" =>
          /\ Eligible' => (pc' = "validate_sources" /\ dispatched' = dispatched)
          /\ (pc' # "validate_sources") => ~Eligible']_vars

\* C11 witness: validate_sources was selected at an evaluation whose
\* reflection reported sufficient and whose budget was exhausted.
C11_Witness ==
    /\ pc = "validate_sources"
    /\ is_sufficient
    /\ research_loop_count >= Budget

RECURSIVE NonBlankCount(_)
NonBlankCount(qs) ==
    IF qs = <<>> THEN 0
    ELSE (IF Head(qs) # Blank THEN 1 ELSE 0) + NonBlankCount(Tail(qs))

\* C12: without validation eligibility, evaluate_research routes to
\* finalize_answer if is_sufficient, or research_loop_count >=
\* max_research_loops, or no follow-up query is left after the blank ones are
\* filtered out; otherwise it fans out one web_research branch per non-blank
\* follow-up query.
C12_FinalizeOrFanOut ==
    [][(pc = "reflection" /\ ~Eligible') =>
          IF \/ is_sufficient'
             \/ research_loop_count' >= Budget
             \/ NonBlankCount(follow_up_queries') = 0
          THEN pc' = "finalize_answer" /\ dispatched' = dispatched
          ELSE /\ pc' = "web_research"
               /\ Len(branches') = NonBlankCount(follow_up_queries')]_vars

\* the fan-outs whose branches have all completed and been merged
JoinedCount ==
    IF pc = "web_research" THEN Len(dispatched) - 1 ELSE Len(dispatched)

JoinedSends == AllSends(JoinedCount)

LastGroup == dispatched[Len(dispatched)]

\* what the web_research branches of the whole run contribute to a field
Contribution(fld) == JoinField(AllSends(Len(dispatched)), fld, 1)

\* C13: at END the length of search_query, web_research_result and
\* sources_gathered is the sum of the web_research branches' contributions
\* (on top of what the input held); web_research_result has one entry per
\* branch.
C13_AppendFieldsSumOfBranchContributions ==
    pc = "END" =>
        /\ Len(web_research_result) = Len(Contribution("web_research_result"))
        /\ Len(web_research_result) = executions["web_research"]
        /\ Len(search_query) =
              Len(input_state.search_query) + Len(Contribution("search_query"))
        /\ Len(sources_gathered) =
              Len(input_state.sources_gathered)
              + Len(Contribution("sources_gathered"))

\* C14: web_research_result grows by exactly n when a fan-out of n branches
\* joins, and not before: its length is the number of branches of the joined
\* fan-outs, in every interleaving of branch completions.
C14_JoinAddsOneResultPerBranch ==
    Len(web_research_result) = Len(JoinedSends)

\* C14 witness: a second fan-out, of two branches, has joined.
C14_Witness ==
    /\ pc = "reflection"
    /\ Len(dispatched) = 2
    /\ Len(LastGroup) = 2
    /\ Len(web_research_result) = Len(dispatched[1]) + 2

\* C15: whatever order the branches complete in, the merged entries are in
\* dispatch order, which is ascending branch-id order: web_research_result
\* is the joined branches' summaries in that order, and right after a join
\* search_query ends with the group's queries in that order.
C15_MergedInBranchIdOrder ==
    /\ web_research_result =
          [j \in 1..Len(JoinedSends) |->
              <<"pending", JoinedSends[j].search_query>>]
    /\ \A k \in 1..Len(dispatched) :
          \A j \in 1..(Len(dispatched[k]) - 1) :
              dispatched[k][j].id < dispatched[k][j + 1].id
    /\ pc = "reflection" =>
          LET n == Len(LastGroup) IN
          SubSeq(search_query, Len(search_query) - n + 1, Len(search_query))
              = [j \in 1..n |-> LastGroup[j].search_query]

\* C15 witness: a fan-out of the two different queries f1 and f2 has joined
\* and their summaries are the last two results, f1's first.
C15_Witness ==
    /\ pc = "reflection"
    /\ Len(dispatched) = 2
    /\ Len(LastGroup) = 2
    /\ LastGroup[1].search_query = "f1"
    /\ LastGroup[2].search_query = "f2"
    /\ web_research_result[Len(web_research_result)] = <<"pending", "f2">>
    /\ web_research_result[Len(web_research_result) - 1] = <<"pending", "f1">>

\* C16: reflection runs once per joined fan-out, and reflection,
\* validate_sources and finalize_answer run only when every dispatched branch
\* has executed and its result is merged.
C16_ReflectionAfterJoin ==
    /\ pc \in {"reflection", "validate_sources", "finalize_answer"} =>
          /\ branches = <<>>
          /\ executions["web_research"] = Len(AllSends(Len(dispatched)))
          /\ Len(web_research_result) = Len(AllSends(Len(dispatched)))
    /\ executions["reflection"] + (IF pc = "reflection" THEN 1 ELSE 0)
          = Cardinality({k \in 1..JoinedCount : dispatched[k] # <<>>})

\* C16 witness: the second fan-out, of two branches, has joined and the
\* second reflection is about to run.
C16_Witness ==
    /\ pc = "reflection"
    /\ executions["reflection"] = 1
    /\ Len(dispatched) = 2
    /\ Len(LastGroup) = 2
    /\ executions["web_research"] = Len(dispatched[1]) + 2

\* C17: with anthropic_api_key unset the run is never aborted and never
\* stuck before END; it ends with the explanatory message as the last
\* message; on the search path exactly one reflection and one fan-out (the
\* initial one) happen and finalize_answer runs.
C17_MissingKeyRunsToEnd ==
    KeyMissing(configurable) =>
        /\ pc # "FAILED"
        /\ pc # "END" => ENABLED Next
        /\ executions["reflection"] <= 1
        /\ Len(dispatched) <= 1
        /\ pc = "END" =>
              /\ messages[Len(messages)] = "ai:api_key_not_configured"
              /\ IF initial_search_query_count = 0
                 THEN executions["direct_llm_response"] = 1
                 ELSE /\ executions["reflection"] = 1
                      /\ is_sufficient
                      /\ Len(dispatched) = 1
                      /\ executions["finalize_answer"] = 1

\* C17 witness: a search run without the key is over after one reflection.
C17_Witness ==
    /\ KeyMissing(configurable)
    /\ initial_search_query_count # 0
    /\ pc = "END"
    /\ executions["reflection"] = 1
    /\ messages[Len(messages)] = "ai:api_key_not_configured"

\* C18: no failure of a completion call propagates out of its node and
\* aborts the run.
C18_NoCompletionFailureAbortsRun ==
    pc # "FAILED"

\* C20: every node of a run obtains the configuration values the run started
\* with, also when the environment changes while the run is in flight.
C20_ConfigurationFixedAtRunStart ==
    observed_configurations \subseteq
        {from_runnable_config(input_state.environ, run_config)}

\* C19: a branch of a fan-out that fails does not abort the run (its
\* siblings still complete and are merged, and the run goes on to
\* finalization).
C19_BranchFailureIsolated ==
    (\E i \in 1..Len(branches) : branches[i].failed) => pc # "FAILED"

\* C21: the loop budget of a run comes from the profile selected at run
\* start: in deep research mode (and with no budget in the input state) an
\* insufficient evaluation routes to finalize_answer only once
\* research_loop_count has reached the deep-research profile's
\* deep_research_loops.
C21_DeepModeBudgetIsDeepResearchLoops ==
    [][(/\ pc = "reflection"
        /\ deep_research_mode
        /\ max_research_loops = None
        /\ pc' = "finalize_answer"
        /\ ~is_sufficient')
          => research_loop_count' >= configurable.deep_research_loops]_vars

C23_FinalizationKeepsSources ==
    [][(pc \in {"finalize_answer", "finalize_report"} /\ pc' = "END")
          => sources_gathered' = sources_gathered]_vars

\* C24: whenever reflection gets no structured result (the API key is
\* missing or the structured call raises) it reports is_sufficient = true
\* with no follow-up query, and the evaluation that follows dispatches no
\* web_research branch: the run goes to validate_sources or finalize_answer.
C24_DegradedReflectionEndsLoop ==
    [][(pc = "reflection"
        /\ LastReflection'.knowledge_gap \in {"key_missing", "error"})
          => /\ is_sufficient'
             /\ LastReflection'.follow_up_queries = <<>>
             /\ pc' \in {"validate_sources", "finalize_answer"}
             /\ dispatched' = dispatched
             /\ branches' = <<>>]_vars

\* C24 witness: the structured call of the first reflection raised, the
\* budget is not exhausted, and the run is at finalize_answer.
C24_Witness ==
    /\ pc = "finalize_answer"
    /\ executions["reflection"] = 1
    /\ LastReflection.knowledge_gap = "error"
    /\ research_loop_count < Budget
    /\ Len(dispatched) = 1

NonBlank(q) == q # Blank

\* the queries of a fan-out, in Send order
BranchQueries(bs) == [i \in 1..Len(bs) |-> bs[i].search_query]

\* C25: the follow-up queries evaluate_research dispatches in a cycle are
\* exactly the non-blank follow_up_queries its reflection step produced in
\* that cycle; nothing is carried over from an earlier cycle.
C25_FollowUpsOfThisCycleOnly ==
    [][(pc = "reflection" /\ pc' = "web_research")
          => BranchQueries(branches')
                = SelectSeq(LastReflection'.follow_up_queries, NonBlank)]_vars

\* C26: validate_sources is followed by finalize_answer and, when that
\* returns, END: once validate_sources has executed, no web_research,
\* reflection or further validate_sources step executes in the run.
C26_ValidationNeverReentersLoop ==
    [][/\ pc = "validate_sources" => pc' = "finalize_answer"
       /\ executions["validate_sources"] > 0 =>
             /\ pc' \in {"finalize_answer", "END", "FAILED"}
             /\ executions'["web_research"] = executions["web_research"]
             /\ executions'["reflection"] = executions["reflection"]
             /\ executions'["validate_sources"] = 1
             /\ (pc = "finalize_answer" /\ messages' # messages)
                   => pc' = "END"]_vars

\* C26 witness: a run is over after validate_sources and finalize_answer
\* have each executed once.
C26_Witness ==
    /\ pc = "END"
    /\ executions["validate_sources"] = 1
    /\ executions["finalize_answer"] = 1

\* C27: in deep research mode with a non-empty sources_gathered no run
\* performs more than 3 evaluation cycles, whatever the budget and the
\* reflection outcomes: at research_loop_count = 3 evaluate_research selects
\* validate_sources, also when is_sufficient is false and the budget is not
\* exhausted.
C27_DeepRunsAtMostThreeCycles ==
    [][(pc = "reflection" /\ deep_research_mode /\ sources_gathered # <<>>)
          => /\ research_loop_count' <= ValidationLoopThreshold + 1
             /\ executions'["reflection"] <= ValidationLoopThreshold + 1
             /\ research_loop_count' = ValidationLoopThreshold + 1
                   => (pc' = "validate_sources" /\ dispatched' = dispatched)]_vars

\* C27 witness: validate_sources was selected at the third evaluation of a
\* run with budget 4 whose reflection reported insufficient with a non-blank
\* follow-up query.
C27_Witness ==
    /\ pc = "validate_sources"
    /\ research_loop_count = 3
    /\ Budget = 4
    /\ ~is_sufficient
    /\ HasNonBlank(LastReflection.follow_up_queries)

\* C28: validate_sources is selected, and executes, only in runs whose loop
\* budget is at least 3: with a smaller budget the run finalizes at
\* research_loop_count = budget, before research_loop_count > 2 can hold,
\* also in deep research mode with sources gathered.
C28_ValidationNeedsBudgetOfThree ==
    /\ (pc = "validate_sources" \/ executions["validate_sources"] > 0)
          => Budget >= ValidationLoopThreshold + 1
    /\ Budget <= ValidationLoopThreshold
          => research_loop_count <= Max(Budget, 1)

\* C28 witness: a deep-research run with a source and the default budget of
\* 2 is over after two insufficient reflections and finalize_answer, without
\* validate_sources.
C28_Witness ==
    /\ pc = "END"
    /\ deep_research_mode
    /\ input_state.sources_gathered # <<>>
    /\ max_research_loops = None
    /\ run_config.max_research_loops = None
    /\ Budget = DefaultMaxResearchLoops
    /\ executions["reflection"] = 2
    /\ ~is_sufficient
    /\ executions["finalize_answer"] = 1
    /\ executions["validate_sources"] = 0

\* C29: a run of the Claude graph that starts with an empty sources_gathered
\* keeps it empty in every state, so validate_sources is never selected or
\* executed in it, whatever deep_research_mode, the budget and the
\* reflection outcomes are.
C29_NoSourcesNoValidation ==
    input_state.sources_gathered = <<>> =>
        /\ sources_gathered = <<>>
        /\ pc # "validate_sources"
        /\ executions["validate_sources"] = 0

\* C29 witness: a deep-research run without input sources and with budget 4
\* is over after four reflections and finalize_answer.
C29_Witness ==
    /\ pc = "END"
    /\ deep_research_mode
    /\ input_state.sources_gathered = <<>>
    /\ Budget = 4
    /\ research_loop_count = 4
    /\ executions["web_research"] >= 4
    /\ executions["finalize_answer"] = 1

\* the fields of OverallState whose reducer is operator.add
AppendFields == {"search_query", "web_research_result", "sources_gathered"}

IsPrefix(a, b) == Len(a) <= Len(b) /\ SubSeq(b, 1, Len(a)) = a

\* the partial update a branch of the open fan-out returns
BranchUpdate(b) ==
    IF pc = "web_research" THEN web_research(b) ELSE search_subagent(b)

\* C30: in both graphs the node run as a fan-out branch (web_research,
\* search_subagent) returns only append-reducer fields (search_query,
\* web_research_result, sources_gathered): a branch step leaves every
\* replace-reducer field as it was and only extends the append fields.
C30_BranchesWriteAppendFieldsOnly ==
    [][(pc \in {"web_research", "search_subagent"}) =>
          /\ \A i \in 1..Len(branches) :
                DOMAIN BranchUpdate(branches[i]) \subseteq AppendFields
          /\ IsPrefix(search_query, search_query')
          /\ IsPrefix(web_research_result, web_research_result')
          /\ IsPrefix(sources_gathered, sources_gathered')
          /\ UNCHANGED <<messages, initial_search_query_count,
                         max_research_loops, research_loop_count,
                         deep_research_mode, is_sufficient, follow_up_queries,
                         number_of_ran_queries>>]_vars

\* C30 witness: two sibling web_research branches of the second fan-out
\* have been merged and the loop count is still the one reflection set.
C30_Witness ==
    /\ pc = "reflection"
    /\ Len(dispatched) = 2
    /\ Len(LastGroup) = 2
    /\ research_loop_count = 1
    /\ Len(web_research_result) = Len(dispatched[1]) + 2

\* the multi-agent nodes have executed in graph order so far
MultiAgentStepsInOrder ==
    /\ executions["lead_agent"] <= 1
    /\ executions["citations_subagent"] <= 1
    /\ executions["finalize_report"] <= 1
    /\ executions["search_subagent"] > 0 => executions["lead_agent"] = 1
    /\ (pc = "citations_subagent" \/ executions["citations_subagent"] > 0) =>
          /\ branches = <<>>
          /\ Len(dispatched) = 1
          /\ executions["search_subagent"] = Len(dispatched[1])
    /\ (pc = "finalize_report" \/ executions["finalize_report"] > 0) =>
          executions["citations_subagent"] = 1
    /\ pc = "END" =>
          /\ executions["lead_agent"] = 1
          /\ executions["search_subagent"] = Len(dispatched[1])
          /\ executions["citations_subagent"] = 1
          /\ executions["finalize_report"] = 1

\* C31: every run of the multi-agent graph executes lead_agent once, then
\* the search_subagent branches, then citations_subagent once and only after
\* every branch has completed, then finalize_report once, then END; the
\* graph has no cycle and every run comes to its end.
C31_MultiAgentRunsInOrderAndEnds ==
    []MultiAgentStepsInOrder /\ <>(pc \in {"END", "FAILED"})

\* C31 witness: a run is over after lead_agent, four search_subagent
\* branches, citations_subagent and finalize_report.
C31_Witness ==
    /\ pc = "END"
    /\ executions["lead_agent"] = 1
    /\ executions["search_subagent"] = 4
    /\ executions["citations_subagent"] = 1
    /\ executions["finalize_report"] = 1

\* C32: lead_agent_orchestrator produces exactly four search tasks, one per
\* fixed research aspect, whatever the plan text is, and in a run started
\* with an empty search_query continue_to_search_subagents dispatches one
\* search_subagent branch per task, with ids 0, 1, 2, 3.
C32_FourTasksFourBranches ==
    [][(pc = "lead_agent" /\ pc' # "FAILED"
        /\ input_state.search_query = <<>>)
          => /\ Len(search_query') = 4
             /\ search_query' =
                   <<"topic Core concepts and definitions",
                     "topic Recent developments and trends",
                     "topic Expert opinions and analysis",
                     "topic Statistical data and evidence">>
             /\ Len(dispatched') = 1
             /\ Len(branches') = 4
             /\ \A i \in 1..4 :
                   /\ branches'[i].search_query = search_query'[i]
                   /\ branches'[i].id = i - 1]_vars

\* C32 witness: after the plan "plan b" four branches with ids 0..3 are
\* open.
C32_Witness ==
    /\ pc = "search_subagent"
    /\ input_state.search_query = <<>>
    /\ web_research_result = <<<<"Research Plan", "plan b">>>>
    /\ Len(branches) = 4
    /\ branches[1].id = 0
    /\ branches[4].id = 3

\* C33: citations_subagent adds exactly one entry to web_research_result:
\* after it has run the field is the sequence it was before followed by the
\* one 'Citations Added' entry.
C33_CitationsAddsOneEntry ==
    [][(pc = "citations_subagent" /\ pc' # "FAILED")
          => /\ Len(web_research_result') = Len(web_research_result) + 1
             /\ SubSeq(web_research_result', 1, Len(web_research_result))
                   = web_research_result]_vars

\* a completed request of handler op with a 200 response
Succeeded(r, op) ==
    /\ requests[r].op = op
    /\ requests[r].step = "done"
    /\ requests[r].status = 200

\* C34: two updates of different flows that overlap both take effect: when
\* an update_default_flow_prompts request and an
\* update_anthropic_flow_prompts request are the only requests of a run and
\* both have completed, the stored configuration holds the new default-flow
\* prompts and the new anthropic-flow prompts.
C34_BothFlowUpdatesTakeEffect ==
    \A q, r \in 1..MaxRequests :
        (/\ Succeeded(q, "update_default_flow_prompts")
         /\ Succeeded(r, "update_anthropic_flow_prompts")
         /\ \A o \in 1..MaxRequests \ {q, r} : requests[o].step = "idle")
        => load_flow_prompts(files.flow) =
              [default_flow |-> requests[q].arg,
               anthropic_flow |-> requests[r].arg]
OneFlowOps ==
    {"update_default_flow_prompts", "update_anthropic_flow_prompts",
     "reset_flow_prompts_by_type"}

\* the flow a request of OneFlowOps is scoped to
ScopeOf(request) ==
    IF request.op = "update_default_flow_prompts" THEN "default"
    ELSE IF request.op = "update_anthropic_flow_prompts" THEN "anthropic"
    ELSE request.arg

OtherFlow(flow_type) == IF flow_type = "default" THEN "anthropic" ELSE "default"

\* C35: an operation scoped to one flow, run without interleaving with
\* another request, leaves the other flow's stored prompts as they were when
\* the request arrived and sets the prompts of its own flow: to the posted
\* prompts for an update, to the defaults for a reset.
C35_OtherFlowUnchanged ==
    [][\A r \in 1..MaxRequests :
          (/\ requests[r].op \in OneFlowOps
           /\ ValidFlowType(ScopeOf(requests[r]))
           /\ requests[r].step = "opened"
           /\ requests'[r].step = "done")
          => /\ FlowPart(load_flow_prompts(files'.flow),
                         OtherFlow(ScopeOf(requests[r])))
                  = FlowPart(requests[r].before,
                             OtherFlow(ScopeOf(requests[r])))
             /\ FlowPart(load_flow_prompts(files'.flow), ScopeOf(requests[r]))
                  = IF requests[r].op = "reset_flow_prompts_by_type"
                    THEN FlowPart(load_default_flow_prompts,
                                  ScopeOf(requests[r]))
                    ELSE requests[r].arg]_vars

\* C35 witness: after an update of the whole file, an update of the default
\* flow alone has completed and the anthropic flow still has the prompts of
\* the first update.
C35_Witness ==
    /\ Succeeded(1, "update_flow_prompts")
    /\ Succeeded(2, "update_default_flow_prompts")
    /\ load_flow_prompts(files.flow) =
          [default_flow |-> requests[2].arg,
           anthropic_flow |-> requests[1].flow_arg.anthropic_flow]
\* the configurations of the updates of the whole file that are being
\* handled by requests other than r
UpdatesInFlight(r, op) ==
    {q \in 1..MaxRequests \ {r} : requests[q].op = op /\ InFlight(q)}

\* no request other than r and other than an update of the whole file is
\* changing the file r reads
OnlyWholeUpdatesInFlight(r, op) ==
    \A q \in 1..MaxRequests \ {r} :
        (InFlight(q) /\ FileOf(requests[q].op) = FileOf(requests[r].op))
        => requests[q].op \in
              {op, "get_prompts", "get_flow_prompts",
               "get_flow_prompts_by_type"}

\* C36: after a successful POST /api/prompts with configuration C, a GET
\* /api/prompts that arrives later and is answered before another update or
\* reset completes returns C, or the configuration of an update that is
\* being handled at that moment; the same for POST /api/flow-prompts and
\* GET /api/flow-prompts.
C36_GetReturnsLastUpdate ==
    [][\A r \in 1..MaxRequests :
          /\ (/\ At(r, "get_prompts", "arrived")
              /\ requests'[r].step = "done"
              /\ requests[r].fresh
              /\ last_completed.prompts.config # NoPrompts
              /\ OnlyWholeUpdatesInFlight(r, "update_prompts"))
             => requests'[r].body \in
                   {last_completed.prompts.config} \cup
                   {requests[q].arg : q \in UpdatesInFlight(r, "update_prompts")}
          /\ (/\ At(r, "get_flow_prompts", "arrived")
              /\ requests'[r].step = "done"
              /\ requests[r].fresh
              /\ last_completed.flow.config # NoFlow
              /\ OnlyWholeUpdatesInFlight(r, "update_flow_prompts"))
             => requests'[r].flow_body \in
                   {last_completed.flow.config} \cup
                   {requests[q].flow_arg :
                       q \in UpdatesInFlight(r, "update_flow_prompts")}]_vars
\* request r takes a step
Steps(r) == requests'[r].step # requests[r].step

\* request r takes the step that sends its response
Answers(r) == requests[r].step # "done" /\ requests'[r].step = "done"

\* C37: after a reset has completed and until the next update starts to
\* write, the custom configuration file is absent and GET returns the
\* default prompts, whatever was stored before; a reset that follows a
\* reset leaves the files as they are and gives the same response, the
\* defaults.  For POST /api/prompts/reset and POST /api/flow-prompts/reset.
C37_ResetRestoresDefaults ==
    [][/\ last_completed'.prompts.reset
            => /\ ~files'.prompts.exists
               /\ load_prompts(files'.prompts) = load_default_prompts
       /\ last_completed'.flow.reset
            => /\ ~files'.flow.exists
               /\ load_flow_prompts(files'.flow) = load_default_flow_prompts
       /\ \A r \in 1..MaxRequests :
             /\ (requests[r].op = "reset_prompts" /\ Answers(r)
                    /\ requests'[r].status = 200)
                  => /\ last_completed'.prompts.reset
                     /\ requests'[r].body = load_default_prompts
             /\ (requests[r].op = "reset_flow_prompts" /\ Answers(r))
                  => /\ last_completed'.flow.reset
                     /\ requests'[r].status = 200
                     /\ requests'[r].flow_body = load_default_flow_prompts
             /\ (At(r, "reset_prompts", "arrived") /\ Steps(r)
                    /\ last_completed.prompts.reset)
                  => /\ files' = files
                     /\ Answers(r)
                     /\ requests'[r].status = 200
                     /\ requests'[r].body = load_default_prompts
             /\ (At(r, "reset_flow_prompts", "arrived") /\ Steps(r)
                    /\ last_completed.flow.reset)
                  => files' = files
             /\ (At(r, "get_prompts", "arrived") /\ Answers(r)
                    /\ last_completed.prompts.reset)
                  => requests'[r].body = load_default_prompts
             /\ (At(r, "get_flow_prompts", "arrived") /\ Answers(r)
                    /\ last_completed.flow.reset)
                  => requests'[r].flow_body = load_default_flow_prompts]_vars

\* C37 witness: an update stored a configuration, the reset that completed
\* after it removed the file.
C37_Witness ==
    /\ Succeeded(1, "update_prompts")
    /\ Succeeded(2, "reset_prompts")
    /\ requests[2].body = load_default_prompts
    /\ last_completed.prompts = [config |-> NoPrompts, reset |-> TRUE]
    /\ ~files.prompts.exists
====
